---- MODULE Spec2Model ----
(***************************************************************************)
(* TaskFlow: the task query pipeline (lib/sorting.ts, lib/filtering.ts,    *)
(* lib/taskUtils.ts).                                                      *)
(*                                                                         *)
(* Strings that the code inspects character by character (titles,          *)
(* descriptions, tags, search queries) are sequences of character codes.   *)
(* Timestamps are the epoch values `new Date(iso).getTime()` yields for    *)
(* the ISO strings the tasks carry.                                         *)
(* Arrays are objects on a heap: a function that returns its argument      *)
(* returns the same reference, `[...a]` and `filter` allocate a new array, *)
(* `sort` and `reverse` work in place.                                     *)
(***************************************************************************)
EXTENDS Integers, Sequences, FiniteSets, TLC

\* The sort, filter and statistics functions: one call on a task array.
VARIABLES tasks, call, heap, ret, flag, stats

\* The record helpers (createTask, updateTask, duplicateTask, toggleTaskStatus):
\* a chain of calls, each on the task the last one returned.
VARIABLES clock, orig, before, objs, made, streak

\* The useTasks hook: the React state, the value the last render closed over,
\* the updates queued by setTasks and not applied yet.
VARIABLES storedValue, rendered, queue, applied, outcome, phase

queryVars == <<tasks, call, heap, ret, flag, stats>>
recordVars == <<clock, orig, before, objs, made, streak>>
chainVars == <<orig, before, objs, made, streak>>
hookVars == <<storedValue, rendered, queue, applied, outcome, phase>>

\* useLocalStorage: the localStorage entry of the key and the default value
\* the hook was given. Its React state is storedValue, as in useTasks.
VARIABLES storage, defaultValue

\* useSearch: its two React states (liveQuery is `query`), the timer ref, the timers setTimeout has
\* made; `delay` is the hook's argument; sinceSet counts the time since the
\* last setQuery call (up to delay), clears the calls of clearSearch.
VARIABLES liveQuery, debouncedQuery, timerRef, timers, delay, sinceSet, clears

\* The API routes: the module variable taskStore of route.ts, the taskStore
\* property of the module object `require('../route')` gives ([id]/route.ts
\* reads and writes that one), how the build binds the two, the requests a
\* handler is awaiting the body of, the last answer, the requests so far.
VARIABLES taskStore, exported, binding, inflight, answered, requests

storageVars == <<storage, defaultValue>>
searchVars == <<liveQuery, debouncedQuery, timerRef, timers, delay, sinceSet, clears>>
apiVars == <<taskStore, exported, binding, inflight, answered, requests>>
serviceVars == <<storageVars, searchVars, apiVars>>

vars == <<queryVars, recordVars, hookVars, serviceVars>>

\* ------------------------------------------------------------------ bounds

\* Longest task array handed to a call.
MaxLen == 3
\* Latest instant the clock returns (instants are 0..MaxNow).
MaxNow == 2
\* Longest criteria list handed to multiSort.
MaxCriteria == 2
\* Longest task array handed to calculateStats when only the statuses vary.
MaxStatsLen == 8
\* Most calls of the record helpers in one chain.
MaxCalls == 4
\* Most calls of the useTasks operations in one behaviour.
MaxHookCalls == 3
\* Most API requests in one behaviour, and most of them awaiting their body
\* at once.
MaxRequests == 3
MaxInFlight == 2

\* ------------------------------------------------------------------ values

\* An optional field is Undefined when absent and Some(v) when it holds v.
Undefined == <<>>
Some(v) == <<v>>
Get(o) == o[1]

Priorities == {"low", "medium", "high", "critical"}
Categories == {"work", "personal", "shopping", "health", "other"}
Statuses == {"todo", "in-progress", "done"}
SortFields == {"title", "priority", "createdAt", "dueDate", "status"}
SortOrders == {"asc", "desc"}
FilterSortFields == {"createdAt", "dueDate", "priority", "title"}

\* Character strings: "Zap", "Alpha", "alpha", "Mango", "Al", " AL ".
sZap == <<90, 97, 112>>
sAlpha == <<65, 108, 112, 104, 97>>
salpha == <<97, 108, 112, 104, 97>>
sMango == <<77, 97, 110, 103, 111>>
sAlTag == <<65, 108>>
sQuery == <<32, 65, 76, 32>>
sEmpty == <<>>
\* "  " (blank) and "pal", which spans the tags "Zap" and "Al" and is in neither.
sSpaces == <<32, 32>>
sPal == <<112, 97, 108>>

\* The queries filterTasksBySearch is called with.
SearchQueries == {sEmpty, sQuery, sSpaces, sPal, sMango}

\* The characters of a status label, for localeCompare.
StatusChars(s) ==
  CASE s = "todo" -> <<116, 111, 100, 111>>
    [] s = "in-progress" -> <<105, 110, 45, 112, 114, 111, 103, 114, 101, 115, 115>>
    [] s = "done" -> <<100, 111, 110, 101>>

\* The task bodies the inputs are drawn from; a task's id is its position in
\* the input array, so that two tasks with equal fields stay distinguishable.
TaskBodies ==
  { [title |-> sZap, description |-> Undefined, priority |-> "high",
     category |-> "work", status |-> "todo", dueDate |-> Some(2), createdAt |-> 1,
     updatedAt |-> 1, tags |-> <<>>, assignee |-> Undefined],
    [title |-> sAlpha, description |-> Some(sMango), priority |-> "high",
     category |-> "personal", status |-> "in-progress", dueDate |-> Undefined,
     createdAt |-> 2, updatedAt |-> 2, tags |-> <<>>, assignee |-> Undefined],
    [title |-> salpha, description |-> Undefined, priority |-> "low",
     category |-> "work", status |-> "todo", dueDate |-> Some(1), createdAt |-> 2,
     updatedAt |-> 2, tags |-> <<sZap>>, assignee |-> Undefined],
    [title |-> sMango, description |-> Undefined, priority |-> "critical",
     category |-> "work", status |-> "done", dueDate |-> Some(1), createdAt |-> 3,
     updatedAt |-> 3, tags |-> <<sZap, sAlTag>>, assignee |-> Undefined] }

WithId(body, i) ==
  [id |-> i, title |-> body.title, description |-> body.description,
   priority |-> body.priority, category |-> body.category, status |-> body.status,
   dueDate |-> body.dueDate, createdAt |-> body.createdAt,
   updatedAt |-> body.updatedAt, tags |-> body.tags, assignee |-> body.assignee]

TaskLists ==
  UNION { { [i \in 1..n |-> WithId(bs[i], i)] : bs \in [1..n -> TaskBodies] } : n \in 0..MaxLen }

DEFAULT_FILTERS ==
  [search |-> sEmpty, priority |-> "all", category |-> "all", status |-> "all",
   sortBy |-> "createdAt", sortOrder |-> "desc"]

\* The filter specifications the pipeline is called with.
FilterSpecs ==
  [search : {sEmpty, sQuery}, priority : {"all", "low", "high", "critical"},
   category : {"all", "work"}, status : {"all", "todo", "done"},
   sortBy : FilterSortFields, sortOrder : SortOrders]

Criteria == [field : {"title", "priority", "dueDate"}, order : SortOrders]

CriteriaLists == UNION { [1..n -> Criteria] : n \in 0..MaxCriteria }

\* ------------------------------------------------------------------ strings

\* String.prototype.toLowerCase on the letters A-Z.
toLowerCase(s) == [i \in 1..Len(s) |-> IF s[i] >= 65 /\ s[i] <= 90 THEN s[i] + 32 ELSE s[i]]

RECURSIVE trimStart(_)
trimStart(s) == IF s # <<>> /\ Head(s) = 32 THEN trimStart(Tail(s)) ELSE s

RECURSIVE trimEnd(_)
trimEnd(s) == IF s # <<>> /\ s[Len(s)] = 32 THEN trimEnd(SubSeq(s, 1, Len(s) - 1)) ELSE s

\* String.prototype.trim.
trim(s) == trimEnd(trimStart(s))

\* String.prototype.includes.
includes(s, q) == \E i \in 0..(Len(s) - Len(q)) : SubSeq(s, i + 1, i + Len(q)) = q

\* String.prototype.localeCompare on strings of one case: -1, 0 or 1.
RECURSIVE localeCompare(_, _)
localeCompare(a, b) ==
  IF a = <<>> /\ b = <<>> THEN 0
  ELSE IF a = <<>> THEN -1
  ELSE IF b = <<>> THEN 1
  ELSE IF Head(a) < Head(b) THEN -1
  ELSE IF Head(a) > Head(b) THEN 1
  ELSE localeCompare(Tail(a), Tail(b))

\* ------------------------------------------------------------------ sorting.ts

PRIORITY_WEIGHTS == [low |-> 1, medium |-> 2, high |-> 3, critical |-> 4]

getPriorityWeight(priority) == PRIORITY_WEIGHTS[priority]

compareByTitle(a, b) == localeCompare(toLowerCase(a.title), toLowerCase(b.title))

compareByPriority(a, b) == getPriorityWeight(b.priority) - getPriorityWeight(a.priority)


\* Mutant: older tasks first.
compareByCreatedAtOldestFirst(a, b) == a.createdAt - b.createdAt

compareByCreatedAt(a, b) == b.createdAt - a.createdAt

compareByDueDate(a, b) ==
  IF a.dueDate = Undefined /\ b.dueDate = Undefined THEN 0
  ELSE IF a.dueDate = Undefined THEN 1
  ELSE IF b.dueDate = Undefined THEN -1
  ELSE Get(a.dueDate) - Get(b.dueDate)

compareByStatus(a, b) == localeCompare(StatusChars(a.status), StatusChars(b.status))

COMPARATORS(field, a, b) ==
  CASE field = "title" -> compareByTitle(a, b)
    [] field = "priority" -> compareByPriority(a, b)
    [] field = "createdAt" -> compareByCreatedAt(a, b)
    [] field = "dueDate" -> compareByDueDate(a, b)
    [] field = "status" -> compareByStatus(a, b)

\* The elements of an array.
Elems(arr) == { arr[i] : i \in 1..Len(arr) }

\* Array.prototype.sort(comparefn), a stable insertion sort: each element in
\* turn moves left past the elements it compares strictly below.
RECURSIVE InsertPos(_, _, _, _)
InsertPos(sorted, x, j, comparefn) ==
  IF j >= 1 /\ comparefn[<<x, sorted[j]>>] < 0
    THEN InsertPos(sorted, x, j - 1, comparefn)
    ELSE j

InsertAt(sorted, x, j) == SubSeq(sorted, 1, j) \o <<x>> \o SubSeq(sorted, j + 1, Len(sorted))

RECURSIVE InsertionSort(_, _, _)
InsertionSort(sorted, rest, comparefn) ==
  IF rest = <<>> THEN sorted
  ELSE InsertionSort(InsertAt(sorted, Head(rest), InsertPos(sorted, Head(rest), Len(sorted), comparefn)),
                     Tail(rest), comparefn)

ArraySort(arr, comparefn) == InsertionSort(<<>>, arr, comparefn)

\* Array.prototype.reverse.
ArrayReverse(arr) == [i \in 1..Len(arr) |-> arr[Len(arr) + 1 - i]]

\* A new array object holding elems: the heap after, and the new reference.
Alloc(h, elems) == [heap |-> Append(h, elems), ref |-> Len(h) + 1]


\* Mutant: sorts the array handed in instead of a copy of it.
sortTasksInPlace(h, tasksRef, field, order) ==
  LET comparator == [p \in Elems(h[tasksRef]) \X Elems(h[tasksRef]) |-> COMPARATORS(field, p[1], p[2])]
      h1 == [h EXCEPT ![tasksRef] = ArraySort(@, comparator)]
      h2 == IF order = "desc" THEN [h1 EXCEPT ![tasksRef] = ArrayReverse(@)] ELSE h1
  IN [heap |-> h2, ref |-> tasksRef]

sortTasks(h, tasksRef, field, order) ==
  LET copy == Alloc(h, h[tasksRef])
      comparator == [p \in Elems(h[tasksRef]) \X Elems(h[tasksRef]) |-> COMPARATORS(field, p[1], p[2])]
      h1 == [copy.heap EXCEPT ![copy.ref] = ArraySort(@, comparator)]
      h2 == IF order = "desc" THEN [h1 EXCEPT ![copy.ref] = ArrayReverse(@)] ELSE h1
  IN [heap |-> h2, ref |-> copy.ref]


\* Mutant: 'asc' negates the comparator and 'desc' keeps it.
RECURSIVE multiSortCompareSwapped(_, _, _)
multiSortCompareSwapped(criteria, a, b) ==
  IF criteria = <<>> THEN 0
  ELSE LET cmp == COMPARATORS(Head(criteria).field, a, b)
       IN IF cmp # 0
            THEN (IF Head(criteria).order = "asc" THEN -cmp ELSE cmp)
            ELSE multiSortCompareSwapped(Tail(criteria), a, b)

\* Mutant: the loop does not return at the first non-zero criterion, the last
\* non-zero one decides.
RECURSIVE multiSortCompareLast(_, _, _)
multiSortCompareLast(criteria, a, b) ==
  IF criteria = <<>> THEN 0
  ELSE LET cmp == COMPARATORS(Head(criteria).field, a, b)
           later == multiSortCompareLast(Tail(criteria), a, b)
       IN IF later # 0 THEN later
          ELSE IF Head(criteria).order = "asc" THEN cmp ELSE -cmp

\* The comparison function multiSort hands to sort.
RECURSIVE multiSortCompare(_, _, _)
multiSortCompare(criteria, a, b) ==
  IF criteria = <<>> THEN 0
  ELSE LET cmp == COMPARATORS(Head(criteria).field, a, b)
       IN IF cmp # 0
            THEN (IF Head(criteria).order = "asc" THEN cmp ELSE -cmp)
            ELSE multiSortCompare(Tail(criteria), a, b)

multiSort(h, tasksRef, criteria) ==
  LET copy == Alloc(h, h[tasksRef])
      comparator == [p \in Elems(h[tasksRef]) \X Elems(h[tasksRef]) |-> multiSortCompare(criteria, p[1], p[2])]
  IN [heap |-> [copy.heap EXCEPT ![copy.ref] = ArraySort(@, comparator)], ref |-> copy.ref]

\* ------------------------------------------------------------------ taskUtils.ts

TaskFields ==
  {"id", "title", "description", "priority", "category", "status", "dueDate",
   "createdAt", "updatedAt", "tags", "assignee"}

\* generateId: `task_${Date.now()}_${random}`, held as the pair of its two
\* variable parts; `random` is what Math.random() yields at the call.
generateId(now, random) == <<now, random>>

\* A field of a payload that may leave it out: Undefined when absent.
Optional(data, field) == IF field \in DOMAIN data THEN Some(data[field]) ELSE Undefined

\* value ?? fallback.
OrElse(data, field, fallback) == IF field \in DOMAIN data THEN data[field] ELSE fallback

\* Mutant: the title is taken as supplied.
createTaskUntrimmed(data, now, idNow, random) ==
  [id |-> generateId(idNow, random),
   title |-> data.title,
   description |-> IF "description" \in DOMAIN data THEN Some(trim(data.description)) ELSE Undefined,
   priority |-> OrElse(data, "priority", "medium"),
   category |-> OrElse(data, "category", "other"),
   status |-> "todo",
   dueDate |-> Optional(data, "dueDate"),
   createdAt |-> now,
   updatedAt |-> now,
   tags |-> OrElse(data, "tags", <<>>),
   assignee |-> Optional(data, "assignee")]

\* `now` is the instant `new Date()` returns, `idNow` the instant Date.now()
\* returns afterwards in generateId.
createTask(data, now, idNow, random) ==
  [id |-> generateId(idNow, random),
   title |-> trim(data.title),
   description |-> IF "description" \in DOMAIN data THEN Some(trim(data.description)) ELSE Undefined,
   priority |-> OrElse(data, "priority", "medium"),
   category |-> OrElse(data, "category", "other"),
   status |-> "todo",
   dueDate |-> Optional(data, "dueDate"),
   createdAt |-> now,
   updatedAt |-> now,
   tags |-> OrElse(data, "tags", <<>>),
   assignee |-> Optional(data, "assignee")]

\* { ...a, ...b }: the fields of a, overwritten and extended by those of b.
Spread(a, b) == [f \in DOMAIN a \cup DOMAIN b |-> IF f \in DOMAIN b THEN b[f] ELSE a[f]]

\* Mutant: id and createdAt are not re-asserted after the payload is merged.
updateTaskUnprotected(h, taskRef, updates, now) ==
  Alloc(h, Spread(Spread(h[taskRef], updates), [updatedAt |-> now]))

\* Mutant: the payload is merged last, over the re-asserted fields.
updateTaskPayloadLast(h, taskRef, updates, now) ==
  Alloc(h, Spread(Spread(h[taskRef],
                         [id |-> h[taskRef].id, createdAt |-> h[taskRef].createdAt,
                          updatedAt |-> now]),
                  updates))

\* Mutant: the argument object itself is assigned to and returned.
updateTaskInPlace(h, taskRef, updates, now) ==
  [heap |-> [h EXCEPT ![taskRef] =
               Spread(Spread(@, updates),
                      [id |-> @.id, createdAt |-> @.createdAt, updatedAt |-> now])],
   ref |-> taskRef]

\* Task objects live on a heap like arrays do: the object literal is a new
\* object, the argument is left as it is.
updateTask(h, taskRef, updates, now) ==
  Alloc(h, Spread(Spread(h[taskRef], updates),
                  [id |-> h[taskRef].id, createdAt |-> h[taskRef].createdAt,
                   updatedAt |-> now]))

\* "Copy of ".
sCopyOf == <<67, 111, 112, 121, 32, 111, 102, 32>>

\* Mutant: the copy keeps the status of the original.
duplicateTaskKeepingStatus(h, taskRef, now, idNow, random) ==
  Alloc(h, Spread(h[taskRef],
                  [id |-> generateId(idNow, random),
                   title |-> sCopyOf \o h[taskRef].title,
                   createdAt |-> now,
                   updatedAt |-> now]))

duplicateTask(h, taskRef, now, idNow, random) ==
  Alloc(h, Spread(h[taskRef],
                  [id |-> generateId(idNow, random),
                   title |-> sCopyOf \o h[taskRef].title,
                   status |-> "todo",
                   createdAt |-> now,
                   updatedAt |-> now]))

\* Mutant: done is terminal.
NEXT_STATUS_DoneTerminal ==
  [s \in Statuses |-> CASE s = "todo" -> "in-progress"
                         [] s = "in-progress" -> "done"
                         [] s = "done" -> "done"]

NEXT_STATUS ==
  [s \in Statuses |-> CASE s = "todo" -> "in-progress"
                         [] s = "in-progress" -> "done"
                         [] s = "done" -> "todo"]

toggleTaskStatus(h, taskRef, now) ==
  updateTask(h, taskRef, [status |-> NEXT_STATUS[h[taskRef].status]], now)


\* Mutant: a task due at exactly the current instant counts as overdue.
isTaskOverdueInclusive(task, now) ==
  IF task.dueDate = Undefined \/ task.status = "done" THEN FALSE
  ELSE now >= Get(task.dueDate)

\* `now` is the instant `new Date()` returns at the call.
isTaskOverdue(task, now) ==
  IF task.dueDate = Undefined \/ task.status = "done" THEN FALSE
  ELSE now > Get(task.dueDate)


\* The tags of a task joined into one string.
RECURSIVE JoinTags(_)
JoinTags(tags) == IF tags = <<>> THEN <<>> ELSE Head(tags) \o JoinTags(Tail(tags))

\* Mutant: the query is looked for in the concatenation of the tags.
searchMatchesJoinedTags(task, q) ==
  \/ includes(toLowerCase(task.title), q)
  \/ (task.description # Undefined /\ includes(toLowerCase(Get(task.description)), q))
  \/ includes(toLowerCase(JoinTags(task.tags)), q)

\* The predicate filterTasksBySearch hands to filter, q being the trimmed,
\* lower-cased query.
searchMatches(task, q) ==
  \/ includes(toLowerCase(task.title), q)
  \/ (task.description # Undefined /\ includes(toLowerCase(Get(task.description)), q))
  \/ \E i \in 1..Len(task.tags) : includes(toLowerCase(task.tags[i]), q)

filterTasksBySearch(h, tasksRef, query) ==
  LET q == toLowerCase(trim(query))
  IN IF q = sEmpty THEN [heap |-> h, ref |-> tasksRef]
     ELSE Alloc(h, SelectSeq(h[tasksRef], LAMBDA task : searchMatches(task, q)))

\* Mutant: the percentage is truncated.
roundPercentTruncated(done, length) == (100 * done) \div length

\* Math.round((done / length) * 100) for length > 0: the nearest integer, a
\* half rounded up.
roundPercent(done, length) == (200 * done + length) \div (2 * length)

ZeroStats(total) ==
  [total |-> total,
   byStatus |-> [s \in Statuses |-> 0],
   byPriority |-> [p \in Priorities |-> 0],
   byCategory |-> [c \in Categories |-> 0],
   overdue |-> 0,
   completionRate |-> 0]

\* Mutant: a done task past its due date is counted as overdue.
countTaskDoneOverdue(st, task, now) ==
  [st EXCEPT !.byStatus[task.status] = @ + 1,
             !.byPriority[task.priority] = @ + 1,
             !.byCategory[task.category] = @ + 1,
             !.overdue = IF task.dueDate # Undefined /\ now > Get(task.dueDate)
                         THEN @ + 1 ELSE @]

\* The body of the forEach callback of calculateStats.
countTask(st, task, now) ==
  [st EXCEPT !.byStatus[task.status] = @ + 1,
             !.byPriority[task.priority] = @ + 1,
             !.byCategory[task.category] = @ + 1,
             !.overdue = IF isTaskOverdue(task, now) THEN @ + 1 ELSE @]

\* Mutant: the loop starts at the second task.
RECURSIVE forEachFrom(_, _, _)
forEachFrom(st, arr, now) ==
  IF arr = <<>> THEN st ELSE forEachFrom(countTask(st, Head(arr), now), Tail(arr), now)

forEachTaskSkippingFirst(st, arr, now) ==
  IF arr = <<>> THEN st ELSE forEachFrom(st, Tail(arr), now)

\* tasks.forEach(callback), from the first task to the last.
RECURSIVE forEachTask(_, _, _)
forEachTask(st, arr, now) ==
  IF arr = <<>> THEN st ELSE forEachTask(countTask(st, Head(arr), now), Tail(arr), now)

calculateStats(arr, now) ==
  LET counted == forEachTask(ZeroStats(Len(arr)), arr, now)
  IN [counted EXCEPT !.completionRate =
        IF Len(arr) > 0 THEN roundPercent(counted.byStatus["done"], Len(arr)) ELSE 0]

\* ------------------------------------------------------------------ filtering.ts

filterByPriority(h, tasksRef, priority) ==
  IF priority = "all" THEN [heap |-> h, ref |-> tasksRef]
  ELSE Alloc(h, SelectSeq(h[tasksRef], LAMBDA t : t.priority = priority))


\* Mutant: 'all' is compared like a category, and matches no task.
filterByCategoryNoSentinel(h, tasksRef, category) ==
  Alloc(h, SelectSeq(h[tasksRef], LAMBDA t : t.category = category))

filterByCategory(h, tasksRef, category) ==
  IF category = "all" THEN [heap |-> h, ref |-> tasksRef]
  ELSE Alloc(h, SelectSeq(h[tasksRef], LAMBDA t : t.category = category))


\* Mutant: the status constraint is dropped.
filterByStatusDropped(h, tasksRef, status) == [heap |-> h, ref |-> tasksRef]

filterByStatus(h, tasksRef, status) ==
  IF status = "all" THEN [heap |-> h, ref |-> tasksRef]
  ELSE Alloc(h, SelectSeq(h[tasksRef], LAMBDA t : t.status = status))

filterOverdue(h, tasksRef, now) ==
  Alloc(h, SelectSeq(h[tasksRef],
                     LAMBDA t : t.dueDate # Undefined /\ t.status # "done" /\ Get(t.dueDate) < now))

applyFilters(h, tasksRef, filters) ==
  LET r1 == filterTasksBySearch(h, tasksRef, filters.search)
      r2 == filterByPriority(r1.heap, r1.ref, filters.priority)
      r3 == filterByCategory(r2.heap, r2.ref, filters.category)
      r4 == filterByStatus(r3.heap, r3.ref, filters.status)
  IN sortTasks(r4.heap, r4.ref, filters.sortBy, filters.sortOrder)

\* ------------------------------------------------------------------ calls

\* The caller's array is object 1 of the heap; `tasks` keeps what it held when
\* the call was made. `call` records the operation last called and its
\* arguments, `ret` the array it returned (0: none), `flag` a boolean result.
\* A behaviour is one call on a fresh input (and, for applyFilters, the
\* call repeated on its own output): the functions keep no state between calls.
NoCall ==
  [op |-> "none", field |-> "title", order |-> "asc", criteria |-> <<>>,
   filters |-> DEFAULT_FILTERS, value |-> "all", idx |-> 0, now |-> 0,
   arg |-> 1, first |-> 0]

\* No record helper called: `made` records the helper last called, its
\* arguments, the instants it read and the object it returned.
NothingMade ==
  [op |-> "none", data |-> <<>>, now |-> 0, idNow |-> 0, random |-> 0,
   ref |-> 0, calls |-> 0]

NoStreak == [n |-> 0, from |-> "todo"]

NoRecords ==
  /\ clock = 0
  /\ orig = Undefined
  /\ before = Undefined
  /\ objs = <<>>
  /\ made = NothingMade
  /\ streak = NoStreak

\* An id no task has.
MissingId == <<0 - 1, 0>>

\* No update queued or applied, nothing returned.
NoUpdate == [op |-> "none", id |-> MissingId, task |-> Undefined, updates |-> <<>>]

NoOutcome == [op |-> "none", id |-> MissingId, value |-> Undefined, calls |-> 0]

\* The hook is not mounted.
NoHook ==
  /\ storedValue = <<>>
  /\ rendered = <<>>
  /\ queue = <<>>
  /\ applied = [update |-> NoUpdate, prev |-> <<>>]
  /\ outcome = NoOutcome
  /\ phase = "idle"

\* No sort, filter or statistics function called yet on the array `input`.
NoQuery(input) ==
  /\ tasks = input
  /\ call = NoCall
  /\ heap = <<tasks>>
  /\ ret = 0
  /\ flag = FALSE
  /\ stats = ZeroStats(0)

\* No localStorage entry, no default value.
NoStorage ==
  /\ storage = Undefined
  /\ defaultValue = <<>>

\* useSearch is not mounted.
NoSearch ==
  /\ liveQuery = <<>>
  /\ debouncedQuery = <<>>
  /\ timerRef = 0
  /\ timers = <<>>
  /\ delay = 0
  /\ sinceSet = 0
  /\ clears = 0

\* A request slot no handler is using, and the answer before any request.
NoRequest == [method |-> "none", id |-> MissingId, body |-> "", store |-> <<>>,
              existing |-> Undefined]

NoAnswer == [method |-> "none", id |-> MissingId, body |-> "", status |-> 0,
             data |-> Undefined, prev |-> <<>>, prevExported |-> <<>>]

\* The API routes have served no request.
NoApi ==
  /\ taskStore = <<>>
  /\ exported = <<>>
  /\ binding = "live"
  /\ inflight = [slot \in 1..MaxInFlight |-> NoRequest]
  /\ answered = NoAnswer
  /\ requests = 0

NoServices == NoStorage /\ NoSearch /\ NoApi

\* Nothing called yet on the array `input`.
NothingCalled(input) ==
  /\ NoQuery(input)
  /\ NoRecords
  /\ NoHook
  /\ NoServices

Init == \E input \in TaskLists : NothingCalled(input)

Ready == call.op = "none"

Returned(r) == heap' = r.heap /\ ret' = r.ref /\ UNCHANGED <<tasks, flag, stats, recordVars, hookVars, serviceVars>>

SortTasks ==
  \E field \in SortFields, order \in SortOrders :
    /\ Ready
    /\ call' = [NoCall EXCEPT !.op = "sortTasks", !.field = field, !.order = order]
    /\ Returned(sortTasks(<<tasks>>, 1, field, order))

MultiSort ==
  \E criteria \in CriteriaLists :
    /\ Ready
    /\ call' = [NoCall EXCEPT !.op = "multiSort", !.criteria = criteria]
    /\ Returned(multiSort(<<tasks>>, 1, criteria))

FilterTasksBySearch ==
  \E query \in SearchQueries :
    /\ Ready
    /\ call' = [NoCall EXCEPT !.op = "filterTasksBySearch", !.filters.search = query]
    /\ Returned(filterTasksBySearch(<<tasks>>, 1, query))

FilterByPriority ==
  \E priority \in Priorities \cup {"all"} :
    /\ Ready
    /\ call' = [NoCall EXCEPT !.op = "filterByPriority", !.value = priority]
    /\ Returned(filterByPriority(<<tasks>>, 1, priority))

FilterByCategory ==
  \E category \in Categories \cup {"all"} :
    /\ Ready
    /\ call' = [NoCall EXCEPT !.op = "filterByCategory", !.value = category]
    /\ Returned(filterByCategory(<<tasks>>, 1, category))

FilterByStatus ==
  \E status \in Statuses \cup {"all"} :
    /\ Ready
    /\ call' = [NoCall EXCEPT !.op = "filterByStatus", !.value = status]
    /\ Returned(filterByStatus(<<tasks>>, 1, status))

FilterOverdue ==
  \E now \in 0..MaxNow :
    /\ Ready
    /\ call' = [NoCall EXCEPT !.op = "filterOverdue", !.now = now]
    /\ Returned(filterOverdue(<<tasks>>, 1, now))

IsTaskOverdue ==
  \E now \in 0..MaxNow, i \in 1..Len(tasks) :
    /\ Ready
    /\ call' = [NoCall EXCEPT !.op = "isTaskOverdue", !.now = now, !.idx = i]
    /\ flag' = isTaskOverdue(tasks[i], now)
    /\ heap' = <<tasks>>
    /\ ret' = 0
    /\ UNCHANGED <<tasks, stats, recordVars, hookVars, serviceVars>>

CalculateStats ==
  \E now \in 0..MaxNow :
    /\ Ready
    /\ call' = [NoCall EXCEPT !.op = "calculateStats", !.now = now]
    /\ stats' = calculateStats(tasks, now)
    /\ heap' = <<tasks>>
    /\ ret' = 0
    /\ UNCHANGED <<tasks, flag, recordVars, hookVars, serviceVars>>

ApplyFilters ==
  \E filters \in FilterSpecs :
    /\ Ready
    /\ call' = [NoCall EXCEPT !.op = "applyFilters", !.filters = filters]
    /\ Returned(applyFilters(<<tasks>>, 1, filters))

\* applyFilters called again, with the same filters, on a copy of the array
\* the first call returned.
ApplyFiltersAgain ==
  /\ call.op = "applyFilters"
  /\ LET copy == Alloc(heap, heap[ret])
     IN /\ call' = [call EXCEPT !.op = "applyFiltersAgain", !.arg = copy.ref, !.first = ret]
        /\ Returned(applyFilters(copy.heap, copy.ref, call.filters))

Next ==
  \/ SortTasks
  \/ MultiSort
  \/ FilterTasksBySearch
  \/ FilterByPriority
  \/ FilterByCategory
  \/ FilterByStatus
  \/ FilterOverdue
  \/ IsTaskOverdue
  \/ ApplyFilters
  \/ ApplyFiltersAgain
  \/ CalculateStats

Spec == Init /\ [][Next]_vars

\* calculateStats on longer arrays of tasks that differ in status only.
StatusBodies ==
  { [title |-> sZap, description |-> Undefined, priority |-> "medium",
     category |-> "other", status |-> st, dueDate |-> Some(1), createdAt |-> 0,
     updatedAt |-> 0, tags |-> <<>>, assignee |-> Undefined] : st \in Statuses }

StatsLists(longest) ==
  UNION { { [i \in 1..n |-> WithId(bs[i], i)] : bs \in [1..n -> StatusBodies] } : n \in 0..longest }

StatsInit == \E input \in StatsLists(MaxStatsLen) : NothingCalled(input)

StatsNext == CalculateStats

SpecStats == StatsInit /\ [][StatsNext]_vars

\* ---- the record helpers

\* "  Zap " and " Mango ".
sPadZap == <<32, 32, 90, 97, 112, 32>>
sPadMango == <<32, 77, 97, 110, 103, 111, 32>>

\* CreateTaskPayload: the title alone, and every field supplied.
CreatePayloads ==
  { [title |-> sPadZap],
    [title |-> sAlpha, description |-> sPadMango, priority |-> "high",
     category |-> "work", dueDate |-> 2, tags |-> <<sZap>>, assignee |-> sAlTag] }

\* Partial<Task>: one payload that carries id, createdAt and updatedAt of its
\* own, one that carries ordinary fields.
UpdatePayloads ==
  { [id |-> <<9, 9>>, createdAt |-> 9, updatedAt |-> 0],
    [title |-> sMango, status |-> "done", dueDate |-> Undefined] }

\* What Math.random() contributes to an id.
Randoms == {0, 1}

\* The instants a second read of the clock can give within one call.
ClockReads == {c \in {clock, clock + 1} : c <= MaxNow}

\* The task the chain has reached: the object the last call returned.
Current == objs[made.ref]

CanCall == made.calls < MaxCalls

Made(op, data, idNow, random, ref) ==
  [op |-> op, data |-> data, now |-> clock, idNow |-> idNow, random |-> random,
   ref |-> ref, calls |-> made.calls + 1]

\* The clock moves forward between calls.
Tick ==
  /\ clock < MaxNow
  /\ clock' = clock + 1
  /\ UNCHANGED <<chainVars, queryVars, hookVars, serviceVars>>

CreateTask ==
  \E data \in CreatePayloads, idNow \in ClockReads, random \in Randoms :
    /\ CanCall
    /\ objs' = <<createTask(data, clock, idNow, random)>>
    /\ made' = Made("createTask", data, idNow, random, 1)
    /\ clock' = idNow
    /\ orig' = Some(objs'[1])
    /\ before' = Undefined
    /\ streak' = NoStreak
    /\ UNCHANGED <<queryVars, hookVars, serviceVars>>

\* updateTask(task, updates) on the current task, which is object 1 of the
\* heap the call runs on.
UpdateTask ==
  \E updates \in UpdatePayloads :
    /\ CanCall
    /\ objs # <<>>
    /\ LET r == updateTask(<<Current>>, 1, updates, clock)
       IN /\ objs' = r.heap
          /\ made' = Made("updateTask", updates, clock, 0, r.ref)
    /\ before' = Some(Current)
    /\ streak' = NoStreak
    /\ UNCHANGED <<clock, orig, queryVars, hookVars, serviceVars>>

ToggleTaskStatus ==
  /\ CanCall
  /\ objs # <<>>
  /\ LET r == toggleTaskStatus(<<Current>>, 1, clock)
     IN /\ objs' = r.heap
        /\ made' = Made("toggleTaskStatus", <<>>, clock, 0, r.ref)
  /\ before' = Some(Current)
  /\ streak' = IF made.op = "toggleTaskStatus"
                THEN [streak EXCEPT !.n = @ + 1]
                ELSE [n |-> 1, from |-> Current.status]
  /\ UNCHANGED <<clock, orig, queryVars, hookVars, serviceVars>>

\* The copy starts a chain of its own.
DuplicateTask ==
  \E idNow \in ClockReads, random \in Randoms :
    /\ CanCall
    /\ objs # <<>>
    /\ LET r == duplicateTask(<<Current>>, 1, clock, idNow, random)
       IN /\ objs' = r.heap
          /\ made' = Made("duplicateTask", <<>>, idNow, random, r.ref)
          /\ orig' = Some(r.heap[r.ref])
    /\ clock' = idNow
    /\ before' = Some(Current)
    /\ streak' = NoStreak
    /\ UNCHANGED <<queryVars, hookVars, serviceVars>>

RecordInit == NothingCalled(<<>>)

RecordNext ==
  \/ Tick
  \/ CreateTask
  \/ UpdateTask
  \/ ToggleTaskStatus
  \/ DuplicateTask

SpecRecords == RecordInit /\ [][RecordNext]_vars

\* ---- useTasks

\* "git".
sGit == <<103, 105, 116>>

\* The seed tasks; instants are counted from the load of the module (0).
INITIAL_TASKS ==
  << [id |-> <<0 - 1, 1>>, title |-> sZap, description |-> Some(sAlpha),
      priority |-> "high", category |-> "work", status |-> "done",
      dueDate |-> Some(0 - 1), createdAt |-> 0 - 2, updatedAt |-> 0 - 1,
      tags |-> <<sGit>>, assignee |-> Undefined],
     [id |-> <<0 - 1, 2>>, title |-> sAlpha, description |-> Some(sMango),
      priority |-> "medium", category |-> "work", status |-> "in-progress",
      dueDate |-> Some(2), createdAt |-> 0 - 1, updatedAt |-> 0 - 1,
      tags |-> <<sZap>>, assignee |-> Undefined],
     [id |-> <<0 - 1, 3>>, title |-> sMango, description |-> Some(sZap),
      priority |-> "low", category |-> "shopping", status |-> "todo",
      dueDate |-> Some(1), createdAt |-> 0, updatedAt |-> 0,
      tags |-> <<>>, assignee |-> Undefined] >>

\* What the lazy initialiser of useLocalStorage yields: the default, or the
\* list an earlier session stored.
InitialStores == {INITIAL_TASKS, <<INITIAL_TASKS[2]>>}

\* The payloads addTask is called with, and the updates editTask is called with.
HookPayloads == {[title |-> sPadZap]}
HookUpdates == {[title |-> sMango, status |-> "done", dueDate |-> Undefined]}

\* Mutant: the first task stands in for one that is not found.
findOrFirst(arr, id) ==
  IF \E i \in 1..Len(arr) : arr[i].id = id
  THEN Some(arr[CHOOSE i \in 1..Len(arr) :
                  arr[i].id = id /\ \A j \in 1..(i - 1) : arr[j].id # id])
  ELSE IF arr = <<>> THEN Undefined ELSE Some(arr[1])

\* Array.prototype.find by id: the first task with the id, if any.
find(arr, id) ==
  IF \E i \in 1..Len(arr) : arr[i].id = id
  THEN Some(arr[CHOOSE i \in 1..Len(arr) :
                  arr[i].id = id /\ \A j \in 1..(i - 1) : arr[j].id # id])
  ELSE Undefined

\* Array.prototype.findIndex by id, as a position from 1: 0 where
\* JavaScript gives -1.
findIndex(arr, id) ==
  IF \E i \in 1..Len(arr) : arr[i].id = id
  THEN CHOOSE i \in 1..Len(arr) : arr[i].id = id /\ \A j \in 1..(i - 1) : arr[j].id # id
  ELSE 0

\* The value of a helper that works on a task object.
updateTaskOf(task, updates, now) ==
  LET r == updateTask(<<task>>, 1, updates, now) IN r.heap[r.ref]

toggleTaskStatusOf(task, now) ==
  LET r == toggleTaskStatus(<<task>>, 1, now) IN r.heap[r.ref]

duplicateTaskOf(task, now, idNow, random) ==
  LET r == duplicateTask(<<task>>, 1, now, idNow, random) IN r.heap[r.ref]

\* The updaters handed to setTasks.
addTaskUpdater(prev, newTask) == <<newTask>> \o prev

\* Mutant: every task is updated.
editTaskUpdaterEveryTask(prev, id, updates, now) ==
  [i \in 1..Len(prev) |-> updateTaskOf(prev[i], updates, now)]

editTaskUpdater(prev, id, updates, now) ==
  [i \in 1..Len(prev) |->
     IF prev[i].id = id THEN updateTaskOf(prev[i], updates, now) ELSE prev[i]]

RECURSIVE removeTaskUpdater(_,_)
removeTaskUpdater(prev, id) ==
  IF prev = <<>> THEN <<>>
  ELSE IF Head(prev).id # id THEN <<Head(prev)>> \o removeTaskUpdater(Tail(prev), id)
  ELSE removeTaskUpdater(Tail(prev), id)

\* next.splice(index + 1, 0, copy) on a copy of prev, `index` a position from 1.
splice(prev, index, copy) ==
  SubSeq(prev, 1, index) \o <<copy>> \o SubSeq(prev, index + 1, Len(prev))

duplicateTaskByIdUpdater(prev, id, copy) == splice(prev, findIndex(prev, id), copy)

toggleStatusUpdater(prev, id, now) ==
  [i \in 1..Len(prev) |->
     IF prev[i].id = id THEN toggleTaskStatusOf(prev[i], now) ELSE prev[i]]

\* The ids the operations are called with: those on screen and one that no
\* task has.
CallIds == {rendered[i].id : i \in 1..Len(rendered)} \cup {MissingId}

\* Calls are made from event handlers, between renders.
CanCallHook == phase = "idle" /\ outcome.calls < MaxHookCalls

Outcome(op, id, value) ==
  [op |-> op, id |-> id, value |-> value, calls |-> outcome.calls + 1]

\* setTasks(updater): setValue hands the updater to setStoredValue, which
\* queues it.
setTasks(update) == queue' = Append(queue, update)

\* The calls of one behaviour fall within one millisecond, the case in which
\* generateId can repeat: the clock reads `clock` throughout.
AddTask ==
  \E data \in HookPayloads, random \in Randoms :
    /\ CanCallHook
    /\ LET newTask == createTask(data, clock, clock, random)
       IN /\ setTasks([NoUpdate EXCEPT !.op = "addTask", !.task = Some(newTask)])
          /\ outcome' = Outcome("addTask", MissingId, Some(newTask))
    /\ UNCHANGED <<storedValue, rendered, applied, phase, recordVars, queryVars, serviceVars>>

EditTask ==
  \E id \in CallIds, updates \in HookUpdates :
    /\ CanCallHook
    /\ setTasks([NoUpdate EXCEPT !.op = "editTask", !.id = id, !.updates = updates])
    /\ outcome' = Outcome("editTask", id, Undefined)
    /\ UNCHANGED <<storedValue, rendered, applied, phase, recordVars, queryVars, serviceVars>>

RemoveTask ==
  \E id \in CallIds :
    /\ CanCallHook
    /\ setTasks([NoUpdate EXCEPT !.op = "removeTask", !.id = id])
    /\ outcome' = Outcome("removeTask", id, Undefined)
    /\ UNCHANGED <<storedValue, rendered, applied, phase, recordVars, queryVars, serviceVars>>

\* The original is looked up in the rendered value; the index is looked up
\* in the value the update is applied to.
DuplicateTaskById ==
  \E id \in CallIds, random \in Randoms :
    /\ CanCallHook
    /\ LET original == find(rendered, id)
       IN IF original = Undefined
          THEN /\ outcome' = Outcome("duplicateTaskById", id, Undefined)
               /\ UNCHANGED queue
          ELSE LET copy == duplicateTaskOf(Get(original), clock, clock, random)
               IN /\ setTasks([NoUpdate EXCEPT !.op = "duplicateTaskById", !.id = id,
                                               !.task = Some(copy)])
                  /\ outcome' = Outcome("duplicateTaskById", id, Some(copy))
    /\ UNCHANGED <<storedValue, rendered, applied, phase, recordVars, queryVars, serviceVars>>

ToggleStatus ==
  \E id \in CallIds :
    /\ CanCallHook
    /\ setTasks([NoUpdate EXCEPT !.op = "toggleStatus", !.id = id])
    /\ outcome' = Outcome("toggleStatus", id, Undefined)
    /\ UNCHANGED <<storedValue, rendered, applied, phase, recordVars, queryVars, serviceVars>>

\* setTasks([]): a value, not an updater.
ClearAllTasks ==
  /\ CanCallHook
  /\ setTasks([NoUpdate EXCEPT !.op = "clearAllTasks"])
  /\ outcome' = Outcome("clearAllTasks", MissingId, Undefined)
  /\ UNCHANGED <<storedValue, rendered, applied, phase, recordVars, queryVars, serviceVars>>

\* What the queued update makes of prev when it is applied at instant now.
Apply(update, prev, now) ==
  CASE update.op = "addTask" -> addTaskUpdater(prev, Get(update.task))
    [] update.op = "editTask" -> editTaskUpdater(prev, update.id, update.updates, now)
    [] update.op = "removeTask" -> removeTaskUpdater(prev, update.id)
    [] update.op = "duplicateTaskById" ->
         duplicateTaskByIdUpdater(prev, update.id, Get(update.task))
    [] update.op = "toggleStatus" -> toggleStatusUpdater(prev, update.id, now)
    [] update.op = "clearAllTasks" -> <<>>

\* React applies the queued updates in the order they were queued, each to
\* the value the one before it left; an updater that reads the clock reads
\* it then.
ApplyUpdate ==
  /\ queue # <<>>
  /\ storedValue' = Apply(Head(queue), storedValue, clock)
  /\ applied' = [update |-> Head(queue), prev |-> storedValue]
  /\ queue' = Tail(queue)
  /\ phase' = "flushing"
  /\ UNCHANGED <<rendered, outcome, recordVars, queryVars, serviceVars>>

\* The render after the queue is flushed: the callbacks close over the new value.
Render ==
  /\ phase = "flushing"
  /\ queue = <<>>
  /\ rendered' = storedValue
  /\ phase' = "idle"
  /\ UNCHANGED <<storedValue, queue, applied, outcome, recordVars, queryVars, serviceVars>>

HookInit ==
  /\ NoQuery(<<>>)
  /\ NoRecords
  /\ NoServices
  /\ storedValue \in InitialStores
  /\ rendered = storedValue
  /\ queue = <<>>
  /\ applied = [update |-> NoUpdate, prev |-> <<>>]
  /\ outcome = NoOutcome
  /\ phase = "idle"

HookNext ==
  \/ AddTask
  \/ EditTask
  \/ RemoveTask
  \/ DuplicateTaskById
  \/ ToggleStatus
  \/ ClearAllTasks
  \/ ApplyUpdate
  \/ Render

SpecHook == HookInit /\ [][HookNext]_vars

\* ---- useLocalStorage

\* JSON.stringify of a string: the string between double quotes.
JSONstringify(value) == <<34>> \o value \o <<34>>

\* JSON.parse of a text: Some(value) for a quoted string, Undefined where it
\* throws.
JSONparse(item) ==
  IF Len(item) >= 2 /\ item[1] = 34 /\ item[Len(item)] = 34
  THEN Some(SubSeq(item, 2, Len(item) - 1))
  ELSE Undefined

\* The lazy initialiser of useState: the parsed entry, or the default when
\* there is no entry or it does not parse.
lazyInitialiser(item, default) ==
  IF item # Undefined /\ JSONparse(Get(item)) # Undefined
  THEN Get(JSONparse(Get(item)))
  ELSE default

\* What localStorage holds for the key at mount: nothing, the JSON of a
\* value, a text that is not JSON.
InitialItems == {Undefined, Some(JSONstringify(sZap)), Some(sPal)}

DefaultValues == {sEmpty, sMango}

\* The values setValue is called with; as an updater it appends "!" to prev.
SetValues == {sEmpty, sZap}
sBang == <<33>>

\* setValue(value): setStoredValue((prev) => typeof value === 'function' ? value(prev) : value).
SetValue ==
  \E value \in SetValues, isFunction \in BOOLEAN :
    /\ CanCallHook
    /\ queue' = Append(queue, [op |-> "setValue", isFunction |-> isFunction,
                               value |-> IF isFunction THEN sBang ELSE value])
    /\ outcome' = Outcome("setValue", MissingId, Undefined)
    /\ UNCHANGED <<storedValue, rendered, applied, phase, storageVars, recordVars, queryVars, searchVars, apiVars>>

\* remove(): removeItem(key) at once, setStoredValue(defaultValue) queued.
Remove ==
  /\ CanCallHook
  /\ storage' = Undefined
  /\ queue' = Append(queue, [op |-> "remove", isFunction |-> FALSE, value |-> defaultValue])
  /\ outcome' = Outcome("remove", MissingId, Undefined)
  /\ UNCHANGED <<storedValue, rendered, applied, phase, defaultValue, recordVars, queryVars, searchVars, apiVars>>

\* React applies the queued state updates in order.
RunStateUpdate ==
  /\ queue # <<>>
  /\ storedValue' = IF Head(queue).isFunction
                    THEN storedValue \o Head(queue).value
                    ELSE Head(queue).value
  /\ queue' = Tail(queue)
  /\ phase' = "flushing"
  /\ UNCHANGED <<rendered, applied, outcome, storageVars, recordVars, queryVars, searchVars, apiVars>>

\* The render is committed; the effect is scheduled when storedValue, its
\* dependency, is not the value of the render before.
Commit ==
  /\ phase = "flushing"
  /\ queue = <<>>
  /\ rendered' = storedValue
  /\ phase' = IF storedValue # rendered THEN "effect" ELSE "idle"
  /\ UNCHANGED <<storedValue, queue, applied, outcome, storageVars, recordVars, queryVars, searchVars, apiVars>>

\* The effect: setItem(key, JSON.stringify(storedValue)); when setItem
\* throws (quota exceeded, private browsing) the entry stays as it is.
WriteBack ==
  \E throws \in BOOLEAN :
    /\ phase = "effect"
    /\ storage' = IF throws THEN storage ELSE Some(JSONstringify(storedValue))
    /\ phase' = "idle"
    /\ UNCHANGED <<storedValue, rendered, queue, applied, outcome, defaultValue,
                   recordVars, queryVars, searchVars, apiVars>>

\* The first render; the effect runs after every mount.
StorageInit ==
  /\ NoQuery(<<>>)
  /\ NoRecords
  /\ NoSearch
  /\ NoApi
  /\ storage \in InitialItems
  /\ defaultValue \in DefaultValues
  /\ storedValue = lazyInitialiser(storage, defaultValue)
  /\ rendered = storedValue
  /\ queue = <<>>
  /\ applied = [update |-> NoUpdate, prev |-> <<>>]
  /\ outcome = NoOutcome
  /\ phase = "effect"

StorageNext ==
  \/ SetValue
  \/ Remove
  \/ RunStateUpdate
  \/ Commit
  \/ WriteBack

SpecStorage == StorageInit /\ [][StorageNext]_vars

\* ---- useSearch

\* The delays the hook is given, in ticks of the timer clock.
Delays == {1, 2}

\* The strings setQuery is called with, and the initial queries.
SearchInputs == {sEmpty, sZap, sAlpha}
InitialQueries == {sEmpty, sZap}

\* Mutant: the timer is left running.
clearTimeoutNothing(ts, id) == ts

\* clearTimeout(id): a pending timer is cancelled; no timer (null) and a
\* timer that has fired or was cancelled are left as they are.
clearTimeout(ts, id) ==
  IF id # 0 /\ ts[id].state = "pending"
  THEN [ts EXCEPT ![id].state = "cleared"]
  ELSE ts

\* setTimeout(() => setDebouncedQuery(value), delay): the new timer is the
\* last of the list, its id its position.
setTimeout(ts, value) ==
  Append(ts, [value |-> value, left |-> delay, state |-> "pending", clears |-> clears])

Pending(ts) == {i \in 1..Len(ts) : ts[i].state = "pending"}

\* A queued state update: which state, the value, who queued it.
StateUpdate(state, value, by) == [state |-> state, value |-> value, by |-> by]

SetQuery ==
  \E value \in SearchInputs :
    /\ CanCallHook
    /\ queue' = Append(queue, StateUpdate("query", value, "setQuery"))
    /\ outcome' = Outcome("setQuery", MissingId, Some(value))
    /\ sinceSet' = 0
    /\ UNCHANGED <<liveQuery, debouncedQuery, timerRef, timers, delay, clears,
                   storedValue, rendered, applied, phase, storageVars, apiVars, recordVars, queryVars>>

ClearSearch ==
  /\ CanCallHook
  /\ timers' = clearTimeout(timers, timerRef)
  /\ queue' = queue \o <<StateUpdate("query", sEmpty, "clearSearch"),
                         StateUpdate("debouncedQuery", sEmpty, "clearSearch")>>
  /\ outcome' = Outcome("clearSearch", MissingId, Undefined)
  /\ clears' = clears + 1
  /\ UNCHANGED <<liveQuery, debouncedQuery, timerRef, delay, sinceSet,
                 storedValue, rendered, applied, phase, storageVars, apiVars, recordVars, queryVars>>

\* React applies the queued state updates in order.
RunSearchUpdate ==
  /\ queue # <<>>
  /\ IF Head(queue).state = "query"
     THEN liveQuery' = Head(queue).value /\ UNCHANGED debouncedQuery
     ELSE debouncedQuery' = Head(queue).value /\ UNCHANGED liveQuery
  /\ queue' = Tail(queue)
  /\ phase' = "flushing"
  /\ UNCHANGED <<timerRef, timers, delay, sinceSet, clears,
                 storedValue, rendered, applied, outcome, storageVars, apiVars, recordVars, queryVars>>

\* The render is committed; the effect is scheduled when query, its
\* dependency, is not the value of the render before (delay never changes).
CommitSearch ==
  /\ phase = "flushing"
  /\ queue = <<>>
  /\ rendered' = liveQuery
  /\ phase' = IF liveQuery # rendered THEN "effect" ELSE "idle"
  /\ UNCHANGED <<searchVars, storedValue, queue, applied, outcome, storageVars, apiVars,
                 recordVars, queryVars>>

\* The cleanup of the effect before, then the effect: the timer in the ref
\* is cleared (twice), a timer for the rendered query is made and kept in
\* the ref.
DebounceEffect ==
  /\ phase = "effect"
  /\ LET cleaned == clearTimeout(clearTimeout(timers, timerRef), timerRef)
     IN /\ timers' = setTimeout(cleaned, liveQuery)
        /\ timerRef' = Len(timers')
  /\ phase' = "idle"
  /\ UNCHANGED <<liveQuery, debouncedQuery, delay, sinceSet, clears,
                 storedValue, rendered, queue, applied, outcome, storageVars, apiVars,
                 recordVars, queryVars>>

\* A tick of the timer clock; a timer that is due fires first.
TimePasses ==
  /\ phase = "idle"
  /\ queue = <<>>
  /\ \A i \in Pending(timers) : timers[i].left > 0
  /\ Pending(timers) # {} \/ sinceSet < delay
  /\ timers' = [i \in 1..Len(timers) |->
                  IF timers[i].state = "pending"
                  THEN [timers[i] EXCEPT !.left = @ - 1]
                  ELSE timers[i]]
  /\ sinceSet' = IF sinceSet < delay THEN sinceSet + 1 ELSE sinceSet
  /\ UNCHANGED <<liveQuery, debouncedQuery, timerRef, delay, clears,
                 hookVars, storageVars, apiVars, recordVars, queryVars>>

\* The callback of a timer that is due: setDebouncedQuery(query), with the
\* query of the render that made the timer. Its update is rendered before
\* the next event is handled, and the updates an event handler queued are
\* rendered before the next timer callback runs.
TimerFires ==
  \E i \in Pending(timers) :
    /\ phase = "idle"
    /\ queue = <<>>
    /\ timers[i].left = 0
    /\ timers' = [timers EXCEPT ![i].state = "fired"]
    /\ queue' = Append(queue, StateUpdate("debouncedQuery", timers[i].value, "timer"))
    /\ phase' = "flushing"
    /\ UNCHANGED <<liveQuery, debouncedQuery, timerRef, delay, sinceSet, clears,
                   storedValue, rendered, applied, outcome, storageVars, apiVars,
                   recordVars, queryVars>>

\* The first render, with its effect still to run.
SearchInit ==
  /\ NoQuery(<<>>)
  /\ NoRecords
  /\ NoStorage
  /\ NoApi
  /\ liveQuery \in InitialQueries
  /\ debouncedQuery = liveQuery
  /\ timerRef = 0
  /\ timers = <<>>
  /\ delay \in Delays
  /\ sinceSet = delay
  /\ clears = 0
  /\ storedValue = <<>>
  /\ rendered = liveQuery
  /\ queue = <<>>
  /\ applied = [update |-> NoUpdate, prev |-> <<>>]
  /\ outcome = NoOutcome
  /\ phase = "effect"

SearchNext ==
  \/ SetQuery
  \/ ClearSearch
  \/ RunSearchUpdate
  \/ CommitSearch
  \/ DebounceEffect
  \/ TimePasses
  \/ TimerFires

SpecSearch == SearchInit /\ [][SearchNext]_vars

\* React renders and runs effects, time passes and due timers fire.
SpecSearchLive ==
  /\ SpecSearch
  /\ WF_vars(RunSearchUpdate)
  /\ WF_vars(CommitSearch)
  /\ WF_vars(DebounceEffect)
  /\ WF_vars(TimePasses)
  /\ WF_vars(TimerFires)

\* ------------------------------------------------------------------ validation.ts

\* A JSON value as JavaScript holds it: its type and its value. A string is
\* its characters, a number n is <<n>>, an array its elements, an object its
\* properties; an ISO date string is held as <<instant>>; `truthy` is what
\* Boolean(v) gives.
JsUndefined == [type |-> "undefined", value |-> <<>>, truthy |-> FALSE]
JsNull == [type |-> "null", value |-> <<>>, truthy |-> FALSE]
JsString(chars) == [type |-> "string", value |-> chars, truthy |-> chars # <<>>]
JsNumber(n) == [type |-> "number", value |-> <<n>>, truthy |-> n # 0]
JsArray(elems) == [type |-> "array", value |-> elems, truthy |-> TRUE]
JsObject(props) == [type |-> "object", value |-> props, truthy |-> TRUE]
\* A string that names a priority, a category or a status.
JsWord(word) == [type |-> "string", value |-> word, truthy |-> word # ""]

\* payload.field: undefined when the object has no such property.
Prop(props, field) == IF field \in DOMAIN props THEN props[field] ELSE JsUndefined

\* !v: v is undefined, null, the empty string or 0.
Falsy(v) == ~v.truthy

VALID_PRIORITIES == <<"low", "medium", "high", "critical">>
VALID_CATEGORIES == <<"work", "personal", "shopping", "health", "other">>

TITLE_MIN_LENGTH == 3
TITLE_MAX_LENGTH == 120
DESCRIPTION_MAX_LENGTH == 1000
MAX_TAGS == 10
TAG_MAX_LENGTH == 30

\* A ValidationResult; `thrown` marks a call that threw a TypeError instead
\* of returning one.
pass == [valid |-> TRUE, errors |-> <<>>, thrown |-> FALSE]
fail(errors) == [valid |-> FALSE, errors |-> errors, thrown |-> FALSE]
TypeError == [valid |-> FALSE, errors |-> <<>>, thrown |-> TRUE]

\* title.trim is not a function when title is truthy and not a string.
validateTitle(title) ==
  IF Falsy(title) THEN fail(<<"Title is required.">>)
  ELSE IF title.type # "string" THEN TypeError
  ELSE IF trim(title.value) = <<>> THEN fail(<<"Title is required.">>)
  ELSE IF Len(trim(title.value)) < TITLE_MIN_LENGTH
    THEN fail(<<"Title must be at least 3 characters.">>)
  ELSE IF Len(trim(title.value)) > TITLE_MAX_LENGTH
    THEN fail(<<"Title must not exceed 120 characters.">>)
  ELSE pass

\* desc.length is undefined, and the comparison false, when desc is a number.
validateDescription(desc) ==
  IF Falsy(desc) THEN pass
  ELSE IF desc.type \in {"string", "array"} /\ Len(desc.value) > DESCRIPTION_MAX_LENGTH
    THEN fail(<<"Description must not exceed 1000 characters.">>)
  ELSE pass

validatePriority(priority) ==
  IF Falsy(priority) THEN pass
  ELSE IF ~(priority.type = "string"
            /\ \E i \in 1..Len(VALID_PRIORITIES) : VALID_PRIORITIES[i] = priority.value)
    THEN fail(<<"Priority must be one of: low, medium, high, critical.">>)
  ELSE pass

validateCategory(category) ==
  IF Falsy(category) THEN pass
  ELSE IF ~(category.type = "string"
            /\ \E i \in 1..Len(VALID_CATEGORIES) : VALID_CATEGORIES[i] = category.value)
    THEN fail(<<"Category must be one of: work, personal, shopping, health, other.">>)
  ELSE pass

\* new Date(dueDate).getTime(): the instant of an ISO date string or of a
\* number, NaN (Undefined) for any other value.
getTime(dueDate) ==
  IF dueDate.type \in {"string", "number"} /\ Len(dueDate.value) = 1
  THEN Some(dueDate.value[1]) ELSE Undefined

\* `now` is the instant `new Date()` returns.
validateDueDate(dueDate, now) ==
  IF Falsy(dueDate) THEN pass
  ELSE IF getTime(dueDate) = Undefined THEN fail(<<"Due date is not a valid date.">>)
  ELSE IF Get(getTime(dueDate)) < now THEN fail(<<"Due date must be in the future.">>)
  ELSE pass

\* The messages of tags.forEach, from the tag at position i on (without the
\* position and the tag they quote).
RECURSIVE tagErrors(_, _)
tagErrors(tags, i) ==
  IF i > Len(tags) THEN <<>>
  ELSE (IF trim(tags[i]) = <<>> THEN <<"Tag is blank.">>
        ELSE IF Len(tags[i]) > TAG_MAX_LENGTH THEN <<"Tag exceeds 30 characters.">>
        ELSE <<>>) \o tagErrors(tags, i + 1)

\* tags.forEach is not a function when tags is truthy and not an array.
validateTags(tags) ==
  IF Falsy(tags) THEN pass
  ELSE IF tags.type # "array" THEN TypeError
  ELSE IF Len(tags.value) = 0 THEN pass
  ELSE IF Len(tags.value) > MAX_TAGS THEN fail(<<"A task may have at most 10 tags.">>)
  ELSE IF tagErrors(tags.value, 1) # <<>> THEN fail(tagErrors(tags.value, 1))
  ELSE pass

\* Reading payload.title throws when the payload is null; a property of a
\* number or a string payload is undefined.
validateTask(payload, now) ==
  IF payload.type = "null" THEN TypeError
  ELSE LET props == IF payload.type = "object" THEN payload.value ELSE <<>>
           results == << validateTitle(Prop(props, "title")),
                         validateDescription(Prop(props, "description")),
                         validatePriority(Prop(props, "priority")),
                         validateCategory(Prop(props, "category")),
                         validateDueDate(Prop(props, "dueDate"), now),
                         validateTags(Prop(props, "tags")) >>
           allErrors == results[1].errors \o results[2].errors \o results[3].errors
                          \o results[4].errors \o results[5].errors \o results[6].errors
       IN IF \E k \in 1..Len(results) : results[k].thrown THEN TypeError
          ELSE IF Len(allErrors) > 0 THEN fail(allErrors) ELSE pass

\* ------------------------------------------------------------------ the API routes

\* "ab".
sAb == <<97, 98>>

\* The texts of the request bodies.
RequestBodies ==
  {"NOT_JSON", "null", "{priority}", "{title: ab}", "{title}", "{title, dueDate: past}",
   "{every field}", "{title, description: 5}", "{title, status}"}

PostBodies == RequestBodies \ {"{title, status}"}
PatchBodies == {"NOT_JSON", "null", "{title, status}"}

\* JSON.parse of a body text that is JSON.
parsed(body) ==
  CASE body = "null" -> JsNull
    [] body = "{priority}" -> JsObject([priority |-> JsWord("low")])
    [] body = "{title: ab}" -> JsObject([title |-> JsString(sAb)])
    [] body = "{title}" -> JsObject([title |-> JsString(sPadZap)])
    [] body = "{title, dueDate: past}" ->
         JsObject([title |-> JsString(sAlpha), dueDate |-> JsString(<<0 - 1>>)])
    [] body = "{every field}" ->
         JsObject([title |-> JsString(sAlpha), description |-> JsString(sPadMango),
                   priority |-> JsWord("high"), category |-> JsWord("work"),
                   dueDate |-> JsString(<<2>>), tags |-> JsArray(<<sZap>>),
                   assignee |-> JsString(sAlTag)])
    [] body = "{title, description: 5}" ->
         JsObject([title |-> JsString(sZap), description |-> JsNumber(5)])
    [] body = "{title, status}" ->
         JsObject([title |-> JsString(sMango), status |-> JsWord("done")])

\* await req.json(): the parsed body, or a rejection when the text is not JSON.
reqJson(body) == IF body = "NOT_JSON" THEN Undefined ELSE Some(parsed(body))

\* The object a handler reads as a payload: the properties that are not null.
PayloadOf(value) ==
  IF value.type # "object" THEN <<>>
  ELSE [f \in {g \in DOMAIN value.value : value.value[g].type # "null"} |->
          IF f = "dueDate" THEN value.value[f].value[1] ELSE value.value[f].value]

\* data.description?.trim() is not a function when description is neither a
\* string nor null nor undefined.
createTaskThrows(value) ==
  Prop(value.value, "description").type \notin {"undefined", "null", "string"}

\* require('../route').taskStore
getStore == exported

\* The ids requests name: those of the store and one no task has.
RequestIds == {exported[i].id : i \in 1..Len(exported)} \cup {MissingId}

CanRequest == requests < MaxRequests

Answer(method, id, body, status, data) ==
  answered' = [method |-> method, id |-> id, body |-> body, status |-> status,
               data |-> data, prev |-> taskStore, prevExported |-> exported]

\* taskStore = ... in route.ts: the variable, and the property the build
\* derives from it.
AssignTaskStore(tasksNow) ==
  /\ taskStore' = tasksNow
  /\ exported' = tasksNow

\* require('../route').taskStore = tasks: the variable of route.ts when the
\* property is the variable (TypeScript's CommonJS output), the property
\* alone when the build keeps a copy in the property (Babel's output).
setStore(tasksNow) ==
  /\ exported' = tasksNow
  /\ taskStore' = IF binding = "live" THEN tasksNow ELSE taskStore

\* The assignment throws a TypeError when the property has a getter only (an
\* ES module namespace, SWC's output).
setStoreThrows == binding = "getter"

Bindings == {"live", "copy", "getter"}

ApiIdle == UNCHANGED <<queryVars, recordVars, hookVars, storageVars, searchVars>>

GET ==
  /\ CanRequest
  /\ requests' = requests + 1
  /\ Answer("GET", MissingId, "", 200, Undefined)
  /\ UNCHANGED <<taskStore, exported, binding, inflight>>
  /\ ApiIdle

\* POST runs to `await req.json()`.
POST ==
  \E slot \in 1..MaxInFlight, body \in PostBodies :
    /\ CanRequest
    /\ inflight[slot] = NoRequest
    /\ requests' = requests + 1
    /\ inflight' = [inflight EXCEPT ![slot] = [NoRequest EXCEPT !.method = "POST", !.body = body]]
    /\ UNCHANGED <<taskStore, exported, binding, answered>>
    /\ ApiIdle

\* POST from the settling of req.json() to its return; a TypeError thrown on
\* the way rejects the handler's promise, which the server answers with 500.
POSTBody ==
  \E slot \in 1..MaxInFlight, random \in Randoms :
    LET req == inflight[slot]
        body == reqJson(req.body)
        validation == validateTask(Get(body), clock)
    IN /\ req.method = "POST"
       /\ inflight' = [inflight EXCEPT ![slot] = NoRequest]
       /\ IF body = Undefined
          THEN /\ Answer("POST", MissingId, req.body, 400, Undefined)
               /\ UNCHANGED <<taskStore, exported>>
          ELSE IF validation.thrown
          THEN /\ Answer("POST", MissingId, req.body, 500, Undefined)
               /\ UNCHANGED <<taskStore, exported>>
          ELSE IF ~validation.valid
          THEN /\ Answer("POST", MissingId, req.body, 422, Undefined)
               /\ UNCHANGED <<taskStore, exported>>
          ELSE IF createTaskThrows(Get(body))
          THEN /\ Answer("POST", MissingId, req.body, 500, Undefined)
               /\ UNCHANGED <<taskStore, exported>>
          ELSE LET newTask == createTask(PayloadOf(Get(body)), clock, clock, random)
               IN /\ AssignTaskStore(<<newTask>> \o taskStore)
                  /\ Answer("POST", newTask.id, req.body, 201, Some(newTask))
       /\ UNCHANGED <<binding, requests>>
       /\ ApiIdle

\* PATCH runs to `await req.json()`, or to the 404.
PATCH ==
  \E slot \in 1..MaxInFlight, id \in RequestIds, body \in PatchBodies :
    LET store == getStore
        existing == find(store, id)
    IN /\ CanRequest
       /\ inflight[slot] = NoRequest
       /\ requests' = requests + 1
       /\ IF existing = Undefined
          THEN /\ Answer("PATCH", id, body, 404, Undefined)
               /\ UNCHANGED inflight
          ELSE /\ inflight' = [inflight EXCEPT ![slot] =
                                 [method |-> "PATCH", id |-> id, body |-> body,
                                  store |-> store, existing |-> existing]]
               /\ UNCHANGED answered
       /\ UNCHANGED <<taskStore, exported, binding>>
       /\ ApiIdle

\* PATCH from the settling of req.json() to its return.
PATCHBody ==
  \E slot \in 1..MaxInFlight :
    LET req == inflight[slot]
        body == reqJson(req.body)
    IN /\ req.method = "PATCH"
       /\ inflight' = [inflight EXCEPT ![slot] = NoRequest]
       /\ IF body = Undefined
          THEN /\ Answer("PATCH", req.id, req.body, 400, Undefined)
               /\ UNCHANGED <<taskStore, exported>>
          ELSE LET updated == updateTaskOf(Get(req.existing), PayloadOf(Get(body)), clock)
               IN IF setStoreThrows
                  THEN /\ Answer("PATCH", req.id, req.body, 500, Undefined)
                       /\ UNCHANGED <<taskStore, exported>>
                  ELSE /\ setStore([i \in 1..Len(req.store) |->
                                      IF req.store[i].id = req.id THEN updated
                                      ELSE req.store[i]])
                       /\ Answer("PATCH", req.id, req.body, 200, Some(updated))
       /\ UNCHANGED <<binding, requests>>
       /\ ApiIdle

\* DELETE has no await: it runs from its call to its return.
DELETE ==
  \E id \in RequestIds :
    LET store == getStore
    IN /\ CanRequest
       /\ requests' = requests + 1
       /\ IF \A i \in 1..Len(store) : store[i].id # id
          THEN /\ Answer("DELETE", id, "", 404, Undefined)
               /\ UNCHANGED <<taskStore, exported>>
          ELSE IF setStoreThrows
          THEN /\ Answer("DELETE", id, "", 500, Undefined)
               /\ UNCHANGED <<taskStore, exported>>
          ELSE /\ setStore(SelectSeq(store, LAMBDA t : t.id # id))
               /\ Answer("DELETE", id, "", 200, Undefined)
       /\ UNCHANGED <<binding, inflight>>
       /\ ApiIdle

ApiInit ==
  /\ NoQuery(<<>>)
  /\ NoRecords
  /\ NoHook
  /\ NoStorage
  /\ NoSearch
  /\ taskStore = <<>>
  /\ exported = <<>>
  /\ binding \in Bindings
  /\ inflight = [slot \in 1..MaxInFlight |-> NoRequest]
  /\ answered = NoAnswer
  /\ requests = 0

ApiNext ==
  \/ GET
  \/ POST
  \/ POSTBody
  \/ PATCH
  \/ PATCHBody
  \/ DELETE

SpecApi == ApiInit /\ [][ApiNext]_vars

\* The array the last call returned.
Result == heap[ret]

TypeOK == ret \in 0..Len(heap)

\* ------------------------------------------------------------------ claims

\* The value a heap-level function returns for an array holding elems.
SortTasksOf(elems, field, order) ==
  LET r == sortTasks(<<elems>>, 1, field, order) IN r.heap[r.ref]

MultiSortOf(elems, criteria) ==
  LET r == multiSort(<<elems>>, 1, criteria) IN r.heap[r.ref]

\* The position of task t in an array of tasks with distinct ids.
PosOf(arr, t) == CHOOSE k \in 1..Len(arr) : arr[k].id = t.id

\* Task a stands before task b in arr.
Before(arr, a, b) == PosOf(arr, a) < PosOf(arr, b)

\* A task satisfies the search query and every categorical constraint.
MatchesFilters(task, filters) ==
  /\ \/ toLowerCase(trim(filters.search)) = sEmpty
     \/ searchMatches(task, toLowerCase(trim(filters.search)))
  /\ filters.priority \in {"all", task.priority}
  /\ filters.category \in {"all", task.category}
  /\ filters.status \in {"all", task.status}

\* C1: applyFilters returns exactly the input tasks that match the search
\* query and every non-'all' priority, category and status constraint, in the
\* order sortTasks(., sortBy, sortOrder) gives to that subset.
C1_ApplyFiltersExact ==
  call.op = "applyFilters" =>
    Result = SortTasksOf(SelectSeq(tasks, LAMBDA t : MatchesFilters(t, call.filters)),
                         call.filters.sortBy, call.filters.sortOrder)

\* A low/todo task and a critical/done task filtered by priority=critical,
\* status=todo give the empty list.
C1_Witness ==
  /\ call.op = "applyFilters"
  /\ Len(tasks) = 2
  /\ tasks[1].priority = "low" /\ tasks[1].status = "todo"
  /\ tasks[2].priority = "critical" /\ tasks[2].status = "done"
  /\ call.filters.priority = "critical" /\ call.filters.status = "todo"
  /\ Result = <<>>

\* C2: sortTasks(tasks, 'priority', 'asc') returns the tasks lowest priority
\* first, and sortTasks(tasks, 'priority', 'desc') highest priority first.
C2_PriorityAscIsLowestFirst ==
  (call.op = "sortTasks" /\ call.field = "priority") =>
    \A i, j \in 1..Len(Result) :
      i < j =>
        IF call.order = "asc"
          THEN getPriorityWeight(Result[i].priority) <= getPriorityWeight(Result[j].priority)
          ELSE getPriorityWeight(Result[i].priority) >= getPriorityWeight(Result[j].priority)

\* C3: for both orders, sortTasks(tasks, 'dueDate', order) places every task
\* that has a dueDate before every task that has none.
C3_UndatedLast ==
  (call.op = "sortTasks" /\ call.field = "dueDate") =>
    \A i, j \in 1..Len(Result) :
      (Result[i].dueDate = Undefined /\ Result[j].dueDate # Undefined) => j < i

\* C4: applyFilters applied with the same filters to a copy of its own output
\* returns the same elements in the same order as the first application.
C4_Idempotent ==
  call.op = "applyFiltersAgain" => Result = heap[call.first]

\* C5: sortTasks (both orders) and multiSort are stable: two tasks the selected
\* comparator(s) rank as equal keep the relative order they had in the input.
C5_Stable ==
  /\ call.op = "sortTasks" =>
       \A i, j \in 1..Len(tasks) :
         (i < j /\ COMPARATORS(call.field, tasks[i], tasks[j]) = 0)
           => Before(Result, tasks[i], tasks[j])
  /\ call.op = "multiSort" =>
       \A i, j \in 1..Len(tasks) :
         (i < j /\ \A k \in 1..Len(call.criteria) :
                     COMPARATORS(call.criteria[k].field, tasks[i], tasks[j]) = 0)
           => Before(Result, tasks[i], tasks[j])

\* C6: no sort or filter call changes its input array: after the call the
\* array handed in holds the same elements in the same order as before.
C6_InputUnchanged ==
  /\ heap[1] = tasks
  /\ call.op = "applyFiltersAgain" => heap[call.arg] = heap[call.first]

\* A call that returned the whole input in another order, the input as it was.
C6_Witness ==
  /\ call.op = "applyFilters"
  /\ Len(Result) = Len(tasks)
  /\ Result # tasks
  /\ heap[1] = tasks

\* The first criterion whose field comparator is non-zero on (a, b); 0: none.
FirstNonZero(criteria, a, b) ==
  IF \E k \in 1..Len(criteria) : COMPARATORS(criteria[k].field, a, b) # 0
    THEN CHOOSE k \in 1..Len(criteria) :
           /\ COMPARATORS(criteria[k].field, a, b) # 0
           /\ \A m \in 1..(k - 1) : COMPARATORS(criteria[m].field, a, b) = 0
    ELSE 0

C8_Lexicographic ==
  call.op = "multiSort" =>
    /\ \A i, j \in 1..Len(tasks) :
         LET k == FirstNonZero(call.criteria, tasks[i], tasks[j])
         IN (i # j /\ k # 0) =>
              (Before(Result, tasks[i], tasks[j])
                 <=> Before(MultiSortOf(tasks, SubSeq(call.criteria, 1, k)), tasks[i], tasks[j]))
    /\ ( /\ Len(tasks) = 2
         /\ tasks[1].title = sZap /\ tasks[2].title = sAlpha
         /\ tasks[1].priority = tasks[2].priority
         /\ call.criteria = <<[field |-> "priority", order |-> "asc"],
                              [field |-> "title", order |-> "asc"]>> )
         => Result[1].title = sAlpha

\* The tie on priority between 'Zap' and 'Alpha' broken by the title.
C8_Witness ==
  /\ call.op = "multiSort"
  /\ Len(tasks) = 2
  /\ tasks[1].title = sZap /\ tasks[2].title = sAlpha
  /\ tasks[1].priority = tasks[2].priority
  /\ call.criteria = <<[field |-> "priority", order |-> "asc"],
                       [field |-> "title", order |-> "asc"]>>
  /\ Result[1].title = sAlpha

OverdueAt(task, now) ==
  /\ task.dueDate # Undefined
  /\ task.status # "done"
  /\ Get(task.dueDate) < now

\* C10: at any instant, isTaskOverdue returns true for, and filterOverdue
\* retains, exactly the tasks that have a dueDate, are not done and whose
\* dueDate is strictly before that instant.
C10_OverdueIff ==
  /\ call.op = "isTaskOverdue" => (flag <=> OverdueAt(tasks[call.idx], call.now))
  /\ call.op = "filterOverdue" =>
       Result = SelectSeq(tasks, LAMBDA t : OverdueAt(t, call.now))

\* A task that is not done and due at exactly the current instant is not overdue.
C10_Witness ==
  /\ call.op = "isTaskOverdue"
  /\ tasks[call.idx].dueDate = Some(call.now)
  /\ tasks[call.idx].status # "done"
  /\ flag = FALSE

\* arr holds, in input order and once each, exactly the input tasks keep(t)
\* is true of (the ids of the input are its positions).
KeepsExactly(arr, keep(_)) ==
  /\ \A k \in 1..Len(arr) : arr[k] \in Elems(tasks) /\ keep(arr[k])
  /\ \A i \in 1..Len(tasks) : keep(tasks[i]) => \E k \in 1..Len(arr) : arr[k] = tasks[i]
  /\ \A k, l \in 1..Len(arr) : k < l => arr[k].id < arr[l].id

\* C11: filterByPriority, filterByCategory and filterByStatus return the same
\* elements in the same order as tasks for 'all', and for a concrete value
\* exactly the tasks whose field equals that value, in input order.
C11_CategoricalFilters ==
  /\ call.op = "filterByPriority" =>
       IF call.value = "all" THEN Result = tasks
       ELSE KeepsExactly(Result, LAMBDA t : t.priority = call.value)
  /\ call.op = "filterByCategory" =>
       IF call.value = "all" THEN Result = tasks
       ELSE KeepsExactly(Result, LAMBDA t : t.category = call.value)
  /\ call.op = "filterByStatus" =>
       IF call.value = "all" THEN Result = tasks
       ELSE KeepsExactly(Result, LAMBDA t : t.status = call.value)

\* filterByCategory(tasks, 'all') on two or more tasks of different categories.
C11_Witness ==
  /\ call.op = "filterByCategory"
  /\ call.value = "all"
  /\ Len(tasks) >= 2
  /\ tasks[1].category # tasks[2].category
  /\ Result = tasks

\* q occurs in s: s is some prefix, then q, then some suffix.
IsSubstring(q, s) ==
  \E i \in 1..(Len(s) + 1) : \E j \in (i - 1)..Len(s) : SubSeq(s, i, j) = q

\* C12: filterTasksBySearch returns the input unchanged when the query is empty
\* after trimming; otherwise, in input order, exactly the tasks for which the
\* trimmed lower-cased query is a substring of the lower-cased title, of the
\* lower-cased description when present, or of one single lower-cased tag.
C12_SearchFilter ==
  call.op = "filterTasksBySearch" =>
    LET q == toLowerCase(trim(call.filters.search))
    IN IF Len(q) = 0 THEN Result = tasks
       ELSE KeepsExactly(Result,
              LAMBDA t : \/ IsSubstring(q, toLowerCase(t.title))
                         \/ (t.description # Undefined
                              /\ IsSubstring(q, toLowerCase(Get(t.description))))
                         \/ \E n \in 1..Len(t.tags) : IsSubstring(q, toLowerCase(t.tags[n])))

\* A query that occurs in the concatenation of a task's tags and in no single
\* tag: the task is not returned.
C12_Witness ==
  /\ call.op = "filterTasksBySearch"
  /\ call.filters.search = sPal
  /\ \E i \in 1..Len(tasks) :
       /\ IsSubstring(sPal, toLowerCase(JoinTags(tasks[i].tags)))
       /\ \A k \in 1..Len(Result) : Result[k] # tasks[i]

\* The number of done tasks of the input.
DoneCount == Cardinality({ i \in 1..Len(tasks) : tasks[i].status = "done" })

Permuted(arr, p) == [i \in 1..Len(arr) |-> arr[p[i]]]

\* C14: calculateStats is order-independent: at the same instant every
\* permutation of the task list gives the same total, byStatus, byPriority,
\* byCategory, overdue and completionRate.
C14_StatsOrderIndependent ==
  call.op = "calculateStats" =>
    \A p \in Permutations(1..Len(tasks)) :
      calculateStats(Permuted(tasks, p), call.now) = stats

\* Stats of three tasks that differ in status and priority, one of them overdue.
C14_Witness ==
  /\ call.op = "calculateStats"
  /\ Len(tasks) = 3
  /\ tasks[1].status # tasks[2].status
  /\ tasks[1].priority # tasks[3].priority
  /\ stats.overdue = 1
  /\ stats.total = 3


\* ---- the record helpers

\* The argument of the last call as it is now, after the call.
Argument == objs[1]

\* C15: id and createdAt are write-once: after a chain of updateTask and
\* toggleTaskStatus calls starting from a task, with payloads that may carry
\* id or createdAt, the result has the starting task's id and createdAt; the
\* call yields a complete task, and the argument of the call is as it was.
C15_WriteOnce ==
  made.op \in {"updateTask", "toggleTaskStatus"} =>
    /\ Current.id = Get(orig).id
    /\ Current.createdAt = Get(orig).createdAt
    /\ DOMAIN Current = TaskFields
    /\ Argument = Get(before)
    /\ made.ref # 1

\* updateTask called with a payload that carries an id and a createdAt.
C15_Witness ==
  /\ made.op = "updateTask"
  /\ "id" \in DOMAIN made.data
  /\ made.data.id # Get(orig).id
  /\ made.data.createdAt # Get(orig).createdAt
  /\ made.calls > 2

\* C16: with a clock that never goes backwards, every task that createTask,
\* updateTask, toggleTaskStatus and duplicateTask produce has
\* updatedAt >= createdAt, also when the payload carries an updatedAt.
C16_UpdatedNotBeforeCreated ==
  \A i \in 1..Len(objs) : objs[i].updatedAt >= objs[i].createdAt

\* A task created after instant 0, updated with a payload whose updatedAt is 0.
C16_Witness ==
  /\ made.op = "updateTask"
  /\ "updatedAt" \in DOMAIN made.data
  /\ made.data.updatedAt < Current.createdAt

\* The cycle todo -> in-progress -> done -> todo.
StatusCycle == <<"todo", "in-progress", "done">>

Successor(status) ==
  LET i == CHOOSE k \in 1..Len(StatusCycle) : StatusCycle[k] = status
  IN StatusCycle[(i % Len(StatusCycle)) + 1]

\* C17: toggleTaskStatus moves the status one step along the cycle; every
\* status has one successor, which is another status; three toggles in a row
\* bring the status back; only status and updatedAt change.
C17_ToggleCycle ==
  /\ \A s \in Statuses : NEXT_STATUS[s] \in Statuses \ {s}
  /\ made.op = "toggleTaskStatus" =>
       /\ Current.status = Successor(Get(before).status)
       /\ \A f \in TaskFields \ {"status", "updatedAt"} : Current[f] = Get(before)[f]
       /\ Current.updatedAt = made.now
       /\ streak.n = 3 => Current.status = streak.from

\* Three toggles in a row, the last of them leaving done.
C17_Witness ==
  /\ made.op = "toggleTaskStatus"
  /\ streak.n = 3
  /\ Get(before).status = "done"

\* s without the blanks at its two ends, by position.
Stripped(s) ==
  LET inner == {i \in 1..Len(s) : s[i] # 32}
  IN IF inner = {} THEN <<>>
     ELSE SubSeq(s, CHOOSE i \in inner : \A j \in inner : i <= j,
                    CHOOSE i \in inner : \A j \in inner : i >= j)

\* C18: createTask returns the trimmed title, the supplied priority, category
\* and tags or else 'medium', 'other' and [], status 'todo', an id generated
\* in the call, and createdAt = updatedAt.
C18_CreateDefaults ==
  made.op = "createTask" =>
    LET data == made.data
    IN /\ Current.title = Stripped(data.title)
       /\ Current.priority = IF "priority" \in DOMAIN data THEN data.priority ELSE "medium"
       /\ Current.category = IF "category" \in DOMAIN data THEN data.category ELSE "other"
       /\ Current.tags = IF "tags" \in DOMAIN data THEN data.tags ELSE <<>>
       /\ Current.status = "todo"
       /\ Current.id = <<made.idNow, made.random>>
       /\ made.now <= made.idNow /\ made.idNow <= clock
       /\ Current.createdAt = Current.updatedAt
       /\ Current.createdAt = made.now

\* createTask with a padded title and nothing else.
C18_Witness ==
  /\ made.op = "createTask"
  /\ DOMAIN made.data = {"title"}
  /\ Len(Current.title) < Len(made.data.title)
  /\ Current.priority = "medium"

\* What duplicateTask gives apart from the id.
DuplicateRest ==
  /\ Current.title = sCopyOf \o Get(before).title
  /\ Current.status = "todo"
  /\ Current.createdAt = made.now
  /\ Current.updatedAt = made.now
  /\ \A f \in {"description", "priority", "category", "dueDate", "tags", "assignee"} :
       Current[f] = Get(before)[f]
  /\ Argument = Get(before)
  /\ made.ref # 1

WithoutPos(arr, k) == SubSeq(arr, 1, k - 1) \o SubSeq(arr, k + 1, Len(arr))

\* C20: once the update of a duplicateTaskById(id) made for an id on screen
\* is applied, the collection is one longer, the copy is right after the
\* task with that id and the rest is as before, in order; the update of an
\* addTask puts the new task at index 0, before the rest.
C20_InsertPositions ==
  LET prev == applied.prev
      update == applied.update
  IN /\ update.op = "duplicateTaskById" =>
          /\ Len(storedValue) = Len(prev) + 1
          /\ \E i \in 1..Len(prev) :
               /\ prev[i].id = update.id
               /\ storedValue[i + 1] = Get(update.task)
               /\ WithoutPos(storedValue, i + 1) = prev
     /\ update.op = "addTask" =>
          /\ storedValue[1] = Get(update.task)
          /\ Tail(storedValue) = prev


\* No task of arr has the id.
Absent(arr, id) == \A i \in 1..Len(arr) : arr[i].id # id

\* C21: an id-keyed operation given an id that no task of the collection
\* has changes nothing: duplicateTaskById returns null and queues no update
\* (the collection it looks in is the rendered one), and the updates of
\* editTask, toggleStatus and removeTask leave the collection they are
\* applied to as it was. Every such call and update is defined (none throws).
C21_MissingIdNoOp ==
  /\ []((applied.update.op \in {"editTask", "toggleStatus", "removeTask"}
           /\ Absent(applied.prev, applied.update.id))
         => storedValue = applied.prev)
  /\ [][(outcome'.op = "duplicateTaskById" /\ outcome'.calls = outcome.calls + 1
           /\ Absent(rendered, outcome'.id))
         => (outcome'.value = Undefined /\ queue' = queue /\ storedValue' = storedValue)]_vars

\* removeTask applied for an id no task has, then duplicateTaskById called
\* for that id and answered with null.
C21_Witness ==
  /\ applied.update.op = "removeTask"
  /\ Absent(applied.prev, applied.update.id)
  /\ applied.prev # <<>>
  /\ outcome.op = "duplicateTaskById"
  /\ Absent(rendered, outcome.id)
  /\ outcome.value = Undefined


\* The positions of arr whose task has the id.
Matches(arr, id) == {i \in 1..Len(arr) : arr[i].id = id}

\* What editTask and toggleStatus leave alone: the length, and every task
\* that does not have the id, at its position; a task that has the id keeps it.
ReplacesOnlyMatches ==
  /\ Len(storedValue) = Len(applied.prev)
  /\ \A i \in 1..Len(applied.prev) :
       IF applied.prev[i].id = applied.update.id
       THEN /\ storedValue[i].id = applied.update.id
            /\ storedValue[i].createdAt = applied.prev[i].createdAt
            /\ applied.update.op = "editTask" =>
                 storedValue[i].title = applied.update.updates.title
            /\ applied.update.op = "toggleStatus" =>
                 storedValue[i].status = Successor(applied.prev[i].status)
       ELSE storedValue[i] = applied.prev[i]

CopiedFields == {"description", "priority", "category", "dueDate", "tags", "assignee"}

\* copy is what duplicateTask makes of task.
CopyOfTask(copy, task) ==
  /\ copy.title = sCopyOf \o task.title
  /\ copy.status = "todo"
  /\ \A f \in CopiedFields : copy[f] = task[f]

\* C28: the update of a duplicateTaskById(id) inserts a copy only when the
\* collection it is applied to has a task with that id; the copy is then
\* right after that task and is a copy of the task as it is in that
\* collection, whatever was queued before it from the same render.
C28_CopyOfCurrent ==
  LET prev == applied.prev
      update == applied.update
  IN update.op = "duplicateTaskById" =>
       IF Absent(prev, update.id)
       THEN storedValue = prev
       ELSE \E i \in Matches(prev, update.id) :
              /\ storedValue[i + 1] = Get(update.task)
              /\ WithoutPos(storedValue, i + 1) = prev
              /\ CopyOfTask(storedValue[i + 1], prev[i])


\* ---- useLocalStorage

\* C23: once remove() has been called and every pending state update and
\* effect has run, localStorage has no entry for the key and the value is
\* defaultValue.
C23_RemovedStaysAbsent ==
  (outcome.op = "remove" /\ queue = <<>> /\ phase = "idle") =>
    /\ storage = Undefined
    /\ storedValue = defaultValue


\* ---- useSearch

\* The hook is at rest: nothing queued, no render or effect under way.
AtRest == phase = "idle" /\ queue = <<>>

\* query is what the last setQuery set, as soon as the hook is at rest.
QueryIsImmediate ==
  (AtRest /\ outcome.op = "setQuery") => liveQuery = Get(outcome.value)

\* A step in which a timer's update changes debouncedQuery.
Published ==
  /\ debouncedQuery' # debouncedQuery
  /\ Head(queue).by = "timer"

\* C24: query changes at once on setQuery; a timer changes debouncedQuery
\* only once a full delay has elapsed since the most recent setQuery, and
\* then to the latest query, so a value replaced within the delay is never
\* published; with no further setQuery debouncedQuery eventually equals query.
C24_Debounce ==
  /\ []QueryIsImmediate
  /\ [][Published => (sinceSet = delay /\ debouncedQuery' = liveQuery)]_vars
  /\ <>[](debouncedQuery = liveQuery)

\* C25: after clearSearch both query and debouncedQuery are '' as soon as
\* the hook is at rest, before any time passes, and no timer made before the
\* clearSearch for a non-empty query is left pending, so none can set
\* debouncedQuery afterwards.
C25_ClearCancels ==
  /\ (AtRest /\ outcome.op = "clearSearch") =>
       (liveQuery = sEmpty /\ debouncedQuery = sEmpty)
  /\ \A i \in 1..Len(timers) :
       (timers[i].clears < clears /\ timers[i].value # sEmpty) =>
         timers[i].state # "pending"

\* clearSearch called while the timer of a non-empty query was pending, and
\* a full delay gone by since: the timer made after it has fired.
C25_Witness ==
  /\ AtRest
  /\ outcome.op = "clearSearch"
  /\ \E i \in 1..Len(timers) :
       /\ timers[i].state = "cleared" /\ timers[i].left > 0
       /\ timers[i].value # sEmpty /\ timers[i].clears < clears
  /\ \E i \in 1..Len(timers) : timers[i].state = "fired" /\ timers[i].clears = clears
  /\ Pending(timers) = {}
  /\ debouncedQuery = sEmpty


\* ---- sortTasks and multiSort

\* C29: sortTasks(tasks, field, order) returns the sequence that
\* multiSort(tasks, [{field, order}]) returns, ties included.
C29_SortIsOneCriterion ==
  call.op = "sortTasks" =>
    Result = MultiSortOf(tasks, <<[field |-> call.field, order |-> call.order]>>)


\* ---- calculateStats

\* The sum of the counts of a record of counts.
RECURSIVE SumOver(_, _)
SumOver(counts, keys) ==
  IF keys = {} THEN 0
  ELSE LET k == CHOOSE x \in keys : TRUE
       IN counts[k] + SumOver(counts, keys \ {k})

SumOf(counts) == SumOver(counts, DOMAIN counts)

\* C30: the counts of calculateStats partition the list: total is the list
\* length and the sum of the three byStatus counts, of the four byPriority
\* counts and of the five byCategory counts, every key being present;
\* overdue is at most byStatus.todo + byStatus['in-progress'] and is the
\* number of tasks filterOverdue keeps at the same instant.
C30_StatsPartition ==
  call.op = "calculateStats" =>
    /\ stats.total = Len(tasks)
    /\ DOMAIN stats.byStatus = Statuses
    /\ DOMAIN stats.byPriority = Priorities
    /\ DOMAIN stats.byCategory = Categories
    /\ Cardinality(Statuses) = 3 /\ Cardinality(Priorities) = 4 /\ Cardinality(Categories) = 5
    /\ SumOf(stats.byStatus) = stats.total
    /\ SumOf(stats.byPriority) = stats.total
    /\ SumOf(stats.byCategory) = stats.total
    /\ stats.overdue <= stats.byStatus["todo"] + stats.byStatus["in-progress"]
    /\ LET kept == filterOverdue(<<tasks>>, 1, call.now)
       IN stats.overdue = Len(kept.heap[kept.ref])

\* Stats of three tasks: one done and past its due date, one open and
\* overdue, one open and not overdue; some key is zero.
C30_Witness ==
  /\ call.op = "calculateStats"
  /\ Len(tasks) = 3
  /\ \E i \in 1..3 : tasks[i].status = "done" /\ tasks[i].dueDate # Undefined
                       /\ Get(tasks[i].dueDate) < call.now
  /\ \E i \in 1..3 : tasks[i].status # "done" /\ ~isTaskOverdue(tasks[i], call.now)
  /\ stats.overdue = 1
  /\ \E c \in Categories : stats.byCategory[c] = 0


\* ---- the API routes

\* C26: POST /api/tasks changes taskStore exactly when it answers 201: a
\* body that is not JSON is answered with 400 and a payload validateTask
\* rejects with 422, the store staying as it was; a payload validateTask
\* accepts is answered with 201, the created task then being the first of
\* the store and the tasks it had following in their order.
C26_PostContract ==
  answered.method = "POST" =>
    LET body == reqJson(answered.body)
        validation == validateTask(Get(body), clock)
    IN /\ (taskStore # answered.prev) <=> (answered.status = 201)
       /\ body = Undefined => (answered.status = 400 /\ taskStore = answered.prev)
       /\ (body # Undefined /\ ~validation.thrown /\ ~validation.valid) =>
            (answered.status = 422 /\ taskStore = answered.prev)
       /\ (body # Undefined /\ validation.valid) =>
            /\ answered.status = 201
            /\ taskStore = <<Get(answered.data)>> \o answered.prev

\* C27: whatever ran while it awaited its body, a PATCH that writes the
\* store replaces the tasks with its id in the store as it is at the write
\* and nothing else: every other task of that store is kept at its place and
\* none is added.
C27_PatchReplacesOnly ==
  (answered.method = "PATCH" /\ answered.status = 200) =>
    LET current == answered.prevExported
    IN /\ Len(exported) = Len(current)
       /\ \A i \in 1..Len(current) :
            IF current[i].id = answered.id THEN exported[i].id = answered.id
            ELSE exported[i] = current[i]

====
